---- MODULE Spec2Model ----
(***************************************************************************)
(* State-machine model of the paratensor pallet                            *)
(* (pallets/paratensor/src/lib.rs): its storage items, its dispatchables   *)
(* and the block hook.  Every dispatchable is modelled as the code stands: *)
(* most of them are stubs that return Ok(()) and touch no storage.         *)
(***************************************************************************)
EXTENDS Integers, Sequences, FiniteSets, TLC

(* ---------------------------- bounds ----------------------------------- *)
MaxNetuid == 1
MaxAccount == 1
MaxUid == 1
MaxLen == 2
MaxWeight == 1
MaxAmount == 2
MaxRatio == 2
MaxBlock == 1
MaxInitialMinAllowedWeights == 1
MaxInitialTempo == 1
EpochSlots == 3

(* --------------------------- value sets -------------------------------- *)
U16Modulus == 65536
U16Max == 65535

Netuids == 0..MaxNetuid
\* T::AccountId; account 0 is the all-zero account the Default* functions decode
Accounts == 0..MaxAccount
UidSet == 0..MaxUid
Amounts == 0..MaxAmount
\* u16 ratios offered to sudo_set_emission_ratio: small ones and the largest u16
Ratios == (0..MaxRatio) \cup {U16Max}
WeightValues == 0..MaxWeight
Blocks == 0..MaxBlock

RECURSIVE SeqsUpTo(_, _)
SeqsUpTo(S, n) ==
    IF n = 0 THEN {<<>>}
    ELSE LET shorter == SeqsUpTo(S, n - 1)
         IN  shorter \cup {Append(s, x) : s \in {t \in shorter : Len(t) = n - 1}, x \in S}

UidVecs == SeqsUpTo(UidSet, MaxLen)
WeightVecs == SeqsUpTo(WeightValues, MaxLen)

\* OriginFor<T>: the root origin or a signed account
Origins == {[kind |-> "Root", who |-> 0]} \cup {[kind |-> "Signed", who |-> a] : a \in Accounts}

(* ------------------------- storage defaults ---------------------------- *)
DefaultEmissionRatio == 0
DefaultHotkeyAccount == 0
DefaultColdkeyAccount == 0
DefaultKey == 0
DefaultUid == 0
DefaultN == 0
DefaultWeights == <<>>
DefaultBonds == <<>>
DefaultActive == <<>>
DefaultStake == <<>>
DefaultRank == <<>>

VARIABLES
    EmissionRatio,      \* netuid -> u16
    TotalStake,         \* u64
    Stake,              \* hotkey -> u64
    Coldkeys,           \* hotkey -> coldkey
    Hotkeys,            \* coldkey -> hotkey
    BlocksPerStep,      \* u64
    MinAllowedWeights,  \* netuid -> u16
    Tempo,              \* netuid -> u16
    Active,             \* netuid -> activity vector, indexed by uid
    S,                  \* netuid -> stake vector, indexed by uid
    Rank,               \* netuid -> rank vector, indexed by uid
    SubnetworkN,        \* netuid -> u16
    Keys,               \* netuid -> uid -> hotkey
    Uids,               \* netuid -> hotkey -> uid
    Weights,            \* netuid -> uid -> row of <<uid, weight>>
    Bonds,              \* netuid -> uid -> row of <<uid, bond>>
    block_number,       \* frame_system block height
    last_epoch_height,  \* netuid -> block in which the epoch of the subnetwork last ran
    lastCall            \* the dispatch whose DispatchResult is being returned, or Idle

storage == <<EmissionRatio, TotalStake, Stake, Coldkeys, Hotkeys, BlocksPerStep,
             MinAllowedWeights, Tempo, Active, S, Rank, SubnetworkN, Keys, Uids, Weights, Bonds>>

vars == <<EmissionRatio, TotalStake, Stake, Coldkeys, Hotkeys, BlocksPerStep,
          MinAllowedWeights, Tempo, Active, S, Rank, SubnetworkN, Keys, Uids, Weights, Bonds,
          block_number, last_epoch_height, lastCall>>

\* one shape for every recorded call; fields an operation does not take stay at 0 / <<>>
Call(op, origin, netuid, hotkey, coldkey, amount, dests, weights, result) ==
    [op |-> op, origin |-> origin, netuid |-> netuid, hotkey |-> hotkey,
     coldkey |-> coldkey, amount |-> amount, dests |-> dests, weights |-> weights,
     result |-> result]

NoOrigin == [kind |-> "None", who |-> 0]

\* no dispatch in progress: the runtime applies extrinsics strictly one after another
Idle == Call("none", NoOrigin, 0, 0, 0, 0, <<>>, <<>>, "Ok")

Init ==
    /\ EmissionRatio = [n \in Netuids |-> DefaultEmissionRatio]
    /\ TotalStake = 0
    /\ Stake = [h \in Accounts |-> 0]
    /\ Coldkeys = [h \in Accounts |-> DefaultHotkeyAccount]
    /\ Hotkeys = [c \in Accounts |-> DefaultColdkeyAccount]
    /\ BlocksPerStep = 1
    /\ \E m \in 0..MaxInitialMinAllowedWeights : MinAllowedWeights = [n \in Netuids |-> m]
    /\ \E t \in 1..MaxInitialTempo : Tempo = [n \in Netuids |-> t]
    /\ Active = [n \in Netuids |-> DefaultActive]
    /\ S = [n \in Netuids |-> DefaultStake]
    /\ Rank = [n \in Netuids |-> DefaultRank]
    /\ SubnetworkN = [n \in Netuids |-> DefaultN]
    /\ Keys = [n \in Netuids |-> [u \in UidSet |-> DefaultKey]]
    /\ Uids = [n \in Netuids |-> [h \in Accounts |-> DefaultUid]]
    /\ Weights = [n \in Netuids |-> [u \in UidSet |-> DefaultWeights]]
    /\ Bonds = [n \in Netuids |-> [u \in UidSet |-> DefaultBonds]]
    /\ block_number = 0
    /\ last_epoch_height = [n \in Netuids |-> 0]
    /\ lastCall = Idle

(* ------------------------- helper functions ---------------------------- *)
\* lib.rs:632-635: `let sum : u16 = 0; sum`
calculate_emission_ratio_sum == 0

\* u16 addition of line 618 (wrapping build; the operands here never overflow)
U16Add(a, b) == (a + b) % U16Modulus

\* Uids::get(netuid, hotkey): a ValueQuery map, an absent entry reads as DefaultUid
lookup_uid(netuid, hotkey) == Uids[netuid][hotkey]

\* Keys::get(netuid, uid): a ValueQuery map, an absent entry reads as DefaultKey
lookup_hotkey(netuid, uid) == Keys[netuid][uid]

(* --------------------------- dispatchables ----------------------------- *)
\* the row of pairs (dests[i], weights[i]) that the storing variant below writes
ZipRow(dests, weights) ==
    [i \in 1..(IF Len(dests) < Len(weights) THEN Len(dests) ELSE Len(weights)) |->
        <<dests[i], weights[i]>>]

\* set_weights as it would be if it stored the caller's row without checking the uids
set_weights_storing(origin, netuid, dests, weights) ==
    /\ Weights' = [Weights EXCEPT ![netuid][Uids[netuid][origin.who]] = ZipRow(dests, weights)]
    /\ lastCall' = Call("set_weights", origin, netuid, 0, 0, 0, dests, weights, "Ok")
    /\ UNCHANGED <<EmissionRatio, TotalStake, Stake, Coldkeys, Hotkeys, BlocksPerStep,
                   MinAllowedWeights, Tempo, Active, S, Rank, SubnetworkN, Keys, Uids, Bonds, block_number, last_epoch_height>>

\* set_weights as it would be if the caller's row were also written to the bond matrix
set_weights_bonding(origin, netuid, dests, weights) ==
    /\ Bonds' = [Bonds EXCEPT ![netuid][Uids[netuid][origin.who]] = ZipRow(dests, weights)]
    /\ lastCall' = Call("set_weights", origin, netuid, 0, 0, 0, dests, weights, "Ok")
    /\ UNCHANGED <<EmissionRatio, TotalStake, Stake, Coldkeys, Hotkeys, BlocksPerStep,
                   MinAllowedWeights, Tempo, Active, S, Rank, SubnetworkN, Keys, Uids, Weights, block_number, last_epoch_height>>

set_weights(origin, netuid, dests, weights) ==
    /\ lastCall' = Call("set_weights", origin, netuid, 0, 0, 0, dests, weights, "Ok")
    /\ UNCHANGED <<storage, block_number, last_epoch_height>>

\* add_stake as it would be if it credited the hotkey and forgot the global total
add_stake_unbalanced(origin, hotkey, ammount_staked) ==
    /\ Stake' = [Stake EXCEPT ![hotkey] = @ + ammount_staked]
    /\ lastCall' = Call("add_stake", origin, 0, hotkey, 0, ammount_staked, <<>>, <<>>, "Ok")
    /\ UNCHANGED <<EmissionRatio, TotalStake, Coldkeys, Hotkeys, BlocksPerStep,
                   MinAllowedWeights, Tempo, Active, S, Rank, SubnetworkN, Keys, Uids, Weights, Bonds, block_number, last_epoch_height>>

add_stake(origin, hotkey, ammount_staked) ==
    /\ lastCall' = Call("add_stake", origin, 0, hotkey, 0, ammount_staked, <<>>, <<>>, "Ok")
    /\ UNCHANGED <<storage, block_number, last_epoch_height>>

remove_stake(origin, hotkey, ammount_unstaked) ==
    /\ lastCall' = Call("remove_stake", origin, 0, hotkey, 0, ammount_unstaked, <<>>, <<>>, "Ok")
    /\ UNCHANGED <<storage, block_number, last_epoch_height>>

serve_axon(origin, version) ==
    /\ lastCall' = Call("serve_axon", origin, 0, 0, 0, version, <<>>, <<>>, "Ok")
    /\ UNCHANGED <<storage, block_number, last_epoch_height>>

\* register as it would be if it filled the next slot and forgot to count it
register_uncounted(origin, hotkey, coldkey, netuid) ==
    /\ Keys' = [Keys EXCEPT ![netuid][SubnetworkN[netuid]] = hotkey]
    /\ lastCall' = Call("register", origin, netuid, hotkey, coldkey, 0, <<>>, <<>>, "Ok")
    /\ UNCHANGED <<EmissionRatio, TotalStake, Stake, Coldkeys, Hotkeys, BlocksPerStep,
                   MinAllowedWeights, Tempo, Active, S, Rank, SubnetworkN, Uids, Weights, Bonds, block_number, last_epoch_height>>

register(origin, hotkey, coldkey, netuid) ==
    /\ lastCall' = Call("register", origin, netuid, hotkey, coldkey, 0, <<>>, <<>>, "Ok")
    /\ UNCHANGED <<storage, block_number, last_epoch_height>>

\* sudo_set_blocks_per_step as it would be if it stored its argument
sudo_set_blocks_per_step_storing(origin, blocks_per_step) ==
    /\ BlocksPerStep' = blocks_per_step
    /\ lastCall' = Call("sudo_set_blocks_per_step", origin, 0, 0, 0, blocks_per_step,
                        <<>>, <<>>, "Ok")
    /\ UNCHANGED <<EmissionRatio, TotalStake, Stake, Coldkeys, Hotkeys, MinAllowedWeights,
                   Tempo, Active, S, Rank, SubnetworkN, Keys, Uids, Weights, Bonds,
                   block_number, last_epoch_height>>

sudo_set_blocks_per_step(origin, blocks_per_step) ==
    /\ lastCall' = Call("sudo_set_blocks_per_step", origin, 0, 0, 0, blocks_per_step, <<>>, <<>>, "Ok")
    /\ UNCHANGED <<storage, block_number, last_epoch_height>>

\* sudo_set_emission_ratio as it would be if the insert of line 622 ignored its key
sudo_set_emission_ratio_every_netuid(origin, netuid, subnet_emission_ratio) ==
    /\ IF U16Add(calculate_emission_ratio_sum, subnet_emission_ratio) > 1
       THEN UNCHANGED EmissionRatio
       ELSE EmissionRatio' = [n \in Netuids |-> subnet_emission_ratio]
    /\ lastCall' = Call("sudo_set_emission_ratio", origin, netuid, 0, 0,
                        subnet_emission_ratio, <<>>, <<>>, "Ok")
    /\ UNCHANGED <<TotalStake, Stake, Coldkeys, Hotkeys, BlocksPerStep, MinAllowedWeights,
                   Tempo, Active, S, Rank, SubnetworkN, Keys, Uids, Weights, Bonds,
                   block_number, last_epoch_height>>

\* sudo_set_emission_ratio as it would be without the `> 1` test of line 618
sudo_set_emission_ratio_unguarded(origin, netuid, subnet_emission_ratio) ==
    /\ EmissionRatio' = [EmissionRatio EXCEPT ![netuid] = subnet_emission_ratio]
    /\ lastCall' = Call("sudo_set_emission_ratio", origin, netuid, 0, 0,
                        subnet_emission_ratio, <<>>, <<>>, "Ok")
    /\ UNCHANGED <<TotalStake, Stake, Coldkeys, Hotkeys, BlocksPerStep, MinAllowedWeights,
                   Tempo, Active, S, Rank,
                   SubnetworkN, Keys, Uids, Weights, Bonds, block_number, last_epoch_height>>

sudo_set_emission_ratio(origin, netuid, subnet_emission_ratio) ==
    /\ IF U16Add(calculate_emission_ratio_sum, subnet_emission_ratio) > 1
       THEN UNCHANGED EmissionRatio
       ELSE EmissionRatio' = [EmissionRatio EXCEPT ![netuid] = subnet_emission_ratio]
    /\ lastCall' = Call("sudo_set_emission_ratio", origin, netuid, 0, 0,
                        subnet_emission_ratio, <<>>, <<>>, "Ok")
    /\ UNCHANGED <<TotalStake, Stake, Coldkeys, Hotkeys, BlocksPerStep, MinAllowedWeights,
                   Tempo, Active, S, Rank,
                   SubnetworkN, Keys, Uids, Weights, Bonds, block_number, last_epoch_height>>

\* the Hooks impl is empty: a new block runs no pallet code, and so no epoch
on_initialize ==
    /\ block_number < MaxBlock
    /\ block_number' = block_number + 1
    /\ UNCHANGED <<storage, last_epoch_height, lastCall>>

\* the dispatchable has returned its DispatchResult; the next extrinsic may be applied
dispatch_returns ==
    /\ lastCall # Idle
    /\ lastCall' = Idle
    /\ UNCHANGED <<storage, block_number, last_epoch_height>>

\* an extrinsic is dispatched, or a block begins, only once the previous dispatch has returned
Next ==
    \/ lastCall = Idle /\ \E o \in Origins, n \in Netuids, d \in UidVecs, w \in WeightVecs :
                              set_weights(o, n, d, w)
    \/ lastCall = Idle /\ \E o \in Origins, h \in Accounts, a \in Amounts : add_stake(o, h, a)
    \/ lastCall = Idle /\ \E o \in Origins, h \in Accounts, a \in Amounts : remove_stake(o, h, a)
    \/ lastCall = Idle /\ \E o \in Origins, v \in 0..1 : serve_axon(o, v)
    \/ lastCall = Idle /\ \E o \in Origins, h \in Accounts, c \in Accounts, n \in Netuids :
                              register(o, h, c, n)
    \/ lastCall = Idle /\ \E o \in Origins, b \in Amounts : sudo_set_blocks_per_step(o, b)
    \/ lastCall = Idle /\ \E o \in Origins, n \in Netuids, r \in Ratios :
                              sudo_set_emission_ratio(o, n, r)
    \/ lastCall = Idle /\ on_initialize
    \/ dispatch_returns

Spec == Init /\ [][Next]_vars

(* ------------------------------ summation ------------------------------ *)
RECURSIVE SumOver(_, _)
SumOver(f, D) ==
    IF D = {} THEN 0
    ELSE LET x == CHOOSE y \in D : TRUE IN f[x] + SumOver(f, D \ {x})

(* --------------------------- epoch engine ------------------------------ *)
(* mod epoch is declared at lib.rs:5 and its file is not part of the       *)
(* sources: steps 1-3 of the epoch algorithm are modelled from its         *)
(* description.  Weight rows here hold at most one entry, for which the    *)
(* max/min-ratio clip of step 2 is the identity.                           *)
EpochUids == 0..(EpochSlots - 1)

\* stakes in tenths of the total of the three-uid scenario
EpochStakes == {2, 3, 5}

\* a weight row: empty, or all weight on one target
EpochRows == {<<>>} \cup {<< <<j, 1>> >> : j \in EpochUids}

\* every slot active, or all but the last one
EpochActive == {[u \in EpochUids |-> TRUE], [u \in EpochUids |-> u < EpochSlots - 1]}

SlotsOf(netuid) == 0..(SubnetworkN[netuid] - 1)

\* step 1: the stake of the active uids; it is normalised by ActiveStakeTotal
ActiveStake(netuid, i) == IF Active[netuid][i] THEN S[netuid][i] ELSE 0

ActiveStakeTotal(netuid) ==
    SumOver([i \in SlotsOf(netuid) |-> ActiveStake(netuid, i)], SlotsOf(netuid))

RowTotal(row) == SumOver([k \in 1..Len(row) |-> row[k][2]], 1..Len(row))

RowWeight(row, j) ==
    SumOver([k \in 1..Len(row) |-> IF row[k][1] = j THEN row[k][2] ELSE 0], 1..Len(row))

RowNonzero(row) == Cardinality({k \in 1..Len(row) : row[k][2] # 0})

\* step 2: the row renormalised to sum to 1 (u16 fixed point); a row with fewer nonzero
\* entries than MinAllowedWeights counts as all-zero
NormalizedWeight(netuid, i, j) ==
    LET row == Weights[netuid][i]
    IN  IF RowNonzero(row) < MinAllowedWeights[netuid] \/ RowTotal(row) = 0
        THEN 0
        ELSE (RowWeight(row, j) * U16Max) \div RowTotal(row)

\* the rank as it would be if each uid were credited with the weight it gives away
compute_rank_outflow(netuid) ==
    LET total == ActiveStakeTotal(netuid)
    IN  [i \in SlotsOf(netuid) |->
            IF total = 0 THEN 0
            ELSE (ActiveStake(netuid, i)
                    * SumOver([j \in SlotsOf(netuid) |-> NormalizedWeight(netuid, i, j)],
                              SlotsOf(netuid)))
                 \div total]

\* step 3: rank[j] = sum over i of S[i] * weight[i][j], in u16 fixed point
compute_rank(netuid) ==
    LET total == ActiveStakeTotal(netuid)
    IN  [j \in SlotsOf(netuid) |->
            IF total = 0 THEN 0
            ELSE SumOver([i \in SlotsOf(netuid) |->
                             ActiveStake(netuid, i) * NormalizedWeight(netuid, i, j)],
                         SlotsOf(netuid))
                 \div total]

run_epoch(netuid) ==
    /\ Rank' = [Rank EXCEPT ![netuid] = compute_rank(netuid)]
    /\ last_epoch_height' = [last_epoch_height EXCEPT ![netuid] = block_number]
    /\ UNCHANGED <<EmissionRatio, TotalStake, Stake, Coldkeys, Hotkeys, BlocksPerStep,
                   MinAllowedWeights, Tempo, Active, S, SubnetworkN, Keys, Uids, Weights,
                   Bonds, block_number, lastCall>>

\* a subnetwork 0 with EpochSlots registered uids, uid u held by hotkey u + 1
InitEpoch ==
    /\ EmissionRatio = [n \in Netuids |-> DefaultEmissionRatio]
    /\ \E st \in [EpochUids -> EpochStakes] :
          /\ S = [n \in Netuids |-> IF n = 0 THEN st ELSE DefaultStake]
          /\ Stake = [h \in 0..EpochSlots |-> IF h = 0 THEN 0 ELSE st[h - 1]]
          /\ TotalStake = SumOver(st, EpochUids)
    /\ Coldkeys = [h \in 0..EpochSlots |-> h]
    /\ Hotkeys = [c \in 0..EpochSlots |-> c]
    /\ BlocksPerStep = 1
    /\ \E m \in 0..MaxInitialMinAllowedWeights : MinAllowedWeights = [n \in Netuids |-> m]
    /\ Tempo = [n \in Netuids |-> 1]
    /\ \E a \in EpochActive : Active = [n \in Netuids |-> IF n = 0 THEN a ELSE DefaultActive]
    /\ Rank = [n \in Netuids |-> DefaultRank]
    /\ SubnetworkN = [n \in Netuids |-> IF n = 0 THEN EpochSlots ELSE DefaultN]
    /\ Keys = [n \in Netuids |-> [u \in EpochUids |-> IF n = 0 THEN u + 1 ELSE DefaultKey]]
    /\ Uids = [n \in Netuids |->
                  [h \in 0..EpochSlots |-> IF n = 0 /\ h > 0 THEN h - 1 ELSE DefaultUid]]
    /\ \E w \in [EpochUids -> EpochRows] :
          Weights = [n \in Netuids |-> [u \in EpochUids |-> IF n = 0 THEN w[u] ELSE DefaultWeights]]
    /\ Bonds = [n \in Netuids |-> [u \in EpochUids |-> DefaultBonds]]
    /\ block_number = 0
    /\ last_epoch_height = [n \in Netuids |-> 0]
    /\ lastCall = Idle

NextEpoch == \E n \in Netuids : run_epoch(n)

SpecEpoch == InitEpoch /\ [][NextEpoch]_vars

(* ----------------------------- claims --------------------------------- *)
\* the sum of an emission-ratio table over all subnetworks
EmissionRatioSum(er) == SumOver(er, Netuids)

\* the sum of all per-hotkey stakes
StakeSum == SumOver(Stake, Accounts)

HasDuplicates(s) == \E i, j \in 1..Len(s) : i # j /\ s[i] = s[j]

NonzeroCount(s) == Cardinality({i \in 1..Len(s) : s[i] # 0})

\* the step is a dispatch of sudo_set_emission_ratio whose update would push the sum over 1
ExceedingEmissionRatioCall ==
    /\ lastCall'.op = "sudo_set_emission_ratio"
    /\ EmissionRatioSum([EmissionRatio EXCEPT ![lastCall'.netuid] = lastCall'.amount]) > 1

\* C1: the sum of EmissionRatio over all subnetworks never exceeds 1
C1_EmissionRatioSumAtMostOne == EmissionRatioSum(EmissionRatio) <= 1

\* C2: sudo_set_emission_ratio returns an error, not Ok, whenever the update would make
\* the sum of EmissionRatio exceed 1
C2_ExceedingUpdateRejected ==
    [][ExceedingEmissionRatioCall => lastCall'.result # "Ok"]_vars

\* C3: a sudo_set_emission_ratio call whose update would make the sum exceed 1 leaves
\* every EmissionRatio entry and all other storage unchanged
C3_ExceedingUpdateNoStateChange ==
    [][ExceedingEmissionRatioCall => UNCHANGED storage]_vars

\* C4: in every reachable state TotalStake equals the sum of Stake[hotkey] over all hotkeys
C4_StakeConservation == TotalStake = StakeSum

\* C4 witness: an add_stake of a positive amount has been dispatched
C4_Witness ==
    /\ lastCall.op = "add_stake"
    /\ lastCall.amount > 0
    /\ lastCall.result = "Ok"
    /\ TotalStake = StakeSum

\* C5: remove_stake of more than the hotkey's stake fails with NotEnoughStaketoWithdraw
\* and leaves Stake[hotkey] and TotalStake unchanged
C5_RemoveTooMuchFails ==
    [][(lastCall'.op = "remove_stake" /\ lastCall'.amount > Stake[lastCall'.hotkey])
         => (/\ lastCall'.result = "NotEnoughStaketoWithdraw"
             /\ Stake' = Stake
             /\ TotalStake' = TotalStake)]_vars

\* C6: add_stake and remove_stake signed by an account that is not the coldkey on record
\* for the hotkey fail with NonAssociatedColdKey and change no state
C6_NonAssociatedColdKeyFails ==
    [][(/\ lastCall'.op \in {"add_stake", "remove_stake"}
        /\ lastCall'.origin.kind = "Signed"
        /\ lastCall'.origin.who # Coldkeys[lastCall'.hotkey])
         => (lastCall'.result = "NonAssociatedColdKey" /\ UNCHANGED storage)]_vars

\* C7: set_weights with uids and weights of different lengths fails with
\* WeightVecNotEqualSize and leaves Weights and all other storage unchanged
C7_LengthMismatchFails ==
    [][(lastCall'.op = "set_weights" /\ Len(lastCall'.dests) # Len(lastCall'.weights))
         => (lastCall'.result = "WeightVecNotEqualSize" /\ UNCHANGED storage)]_vars

\* C8: set_weights whose uids list names the same target uid twice fails with DuplicateUids
C8_DuplicateUidsFails ==
    (lastCall.op = "set_weights" /\ HasDuplicates(lastCall.dests))
        => lastCall.result = "DuplicateUids"

\* C9: set_weights with fewer nonzero weights than MinAllowedWeights[netuid] fails with
\* NotSettingEnoughWeights
C9_TooFewWeightsFails ==
    [][(/\ lastCall'.op = "set_weights"
        /\ NonzeroCount(lastCall'.weights) < MinAllowedWeights[lastCall'.netuid])
         => lastCall'.result = "NotSettingEnoughWeights"]_vars

\* C10: every stored weight row and bond row references only target uids below the
\* subnetwork's current N
C10_RowsReferenceLiveUids ==
    \A n \in Netuids : \A u \in UidSet :
        /\ \A i \in 1..Len(Weights[n][u]) : Weights[n][u][i][1] < SubnetworkN[n]
        /\ \A i \in 1..Len(Bonds[n][u]) : Bonds[n][u][i][1] < SubnetworkN[n]

\* C10 witness: set_weights was dispatched with a target uid that is not below N
C10_Witness ==
    /\ lastCall.op = "set_weights"
    /\ lastCall.result = "Ok"
    /\ \E i \in 1..Len(lastCall.dests) : lastCall.dests[i] >= SubnetworkN[lastCall.netuid]
    /\ Len(lastCall.dests) = Len(lastCall.weights)
    /\ C10_RowsReferenceLiveUids

\* the slots of a subnetwork that hold a key
OccupiedUids(n) == {u \in UidSet : Keys[n][u] # DefaultKey}

\* every value a uid lookup can return for a registered participant
ValidUids == 0..U16Max

\* the last dispatch was a register that returned success
RegisterSucceeded == lastCall.op = "register" /\ lastCall.result = "Ok"

\* C11: after a successful register the hotkey is held by exactly one occupied uid of the
\* subnetwork, Keys and Uids agree on it, and the coldkey on record is the given coldkey
C11_RegisterBinds ==
    RegisterSucceeded =>
        /\ \E u \in UidSet :
              /\ u < SubnetworkN[lastCall.netuid]
              /\ Keys[lastCall.netuid][u] = lastCall.hotkey
              /\ Uids[lastCall.netuid][lastCall.hotkey] = u
              /\ \A v \in UidSet :
                    (v < SubnetworkN[lastCall.netuid] /\ Keys[lastCall.netuid][v] = lastCall.hotkey)
                        => v = u
        /\ Coldkeys[lastCall.hotkey] = lastCall.coldkey

\* C12: for every registered hotkey, here the hotkey a register call just succeeded for,
\* lookup_hotkey(netuid, lookup_uid(netuid, hotkey)) = hotkey, and at most one uid holds it
C12_IdentityInverse ==
    RegisterSucceeded =>
        /\ lookup_hotkey(lastCall.netuid, lookup_uid(lastCall.netuid, lastCall.hotkey))
              = lastCall.hotkey
        /\ Cardinality({u \in UidSet : /\ u < SubnetworkN[lastCall.netuid]
                                        /\ lookup_hotkey(lastCall.netuid, u) = lastCall.hotkey}) <= 1

\* C13: the uid looked up for a hotkey no occupied slot holds, and the hotkey looked up for
\* an unoccupied uid, are never values a registered participant could have
C13_LookupNotFoundDistinguishable ==
    \A n \in Netuids :
        /\ \A h \in Accounts :
              (\A u \in UidSet : u < SubnetworkN[n] => Keys[n][u] # h)
                  => lookup_uid(n, h) \notin ValidUids
        /\ \A u \in UidSet :
              u >= SubnetworkN[n] => lookup_hotkey(n, u) \notin Accounts

\* C14: SubnetworkN[netuid] equals the number of occupied uid slots and stays within the
\* largest slot count the code allows (it configures none below the u16 range)
C14_NCountsOccupiedSlots ==
    \A n \in Netuids :
        /\ SubnetworkN[n] = Cardinality(OccupiedUids(n))
        /\ SubnetworkN[n] <= U16Max

\* C14 witness: a register of a non-default hotkey has returned
C14_Witness ==
    /\ RegisterSucceeded
    /\ lastCall.hotkey # DefaultKey
    /\ C14_NCountsOccupiedSlots

\* C15: a block that begins when Tempo[netuid] or more blocks have passed since the last
\* epoch run of the subnetwork runs that epoch
C15_EpochRunsWhenDue ==
    [][\A n \in Netuids :
          (/\ block_number' = block_number + 1
           /\ block_number' - last_epoch_height[n] >= Tempo[n])
            => last_epoch_height'[n] = block_number']_vars

\* C16: no dispatchable changes any bond row
C16_DispatchablesLeaveBonds ==
    [][lastCall'.op \in {"set_weights", "add_stake", "remove_stake", "serve_axon", "register",
                         "sudo_set_blocks_per_step", "sudo_set_emission_ratio"}
          => Bonds' = Bonds]_vars

\* C16 witness: a set_weights carrying a full row has returned and the bond rows are empty
C16_Witness ==
    /\ lastCall.op = "set_weights"
    /\ Len(lastCall.dests) = MaxLen
    /\ Len(lastCall.weights) = MaxLen
    /\ \A n \in Netuids : \A u \in UidSet : Bonds[n][u] = DefaultBonds

\* C17: sudo_set_emission_ratio and sudo_set_blocks_per_step called by an origin other than
\* root fail and leave EmissionRatio and BlocksPerStep unchanged
C17_SudoOnly ==
    [][(/\ lastCall'.op \in {"sudo_set_emission_ratio", "sudo_set_blocks_per_step"}
        /\ lastCall'.origin.kind # "Root")
         => (/\ lastCall'.result # "Ok"
             /\ EmissionRatio' = EmissionRatio
             /\ BlocksPerStep' = BlocksPerStep)]_vars

\* the three-uid scenario on subnetwork 0: stakes 0.5, 0.3, 0.2, each uid giving all its
\* weight to the next one (0 -> 1 -> 2 -> 0), and the epoch has run
CyclicScenario ==
    /\ \A u \in 0..2 : Active[0][u]
    /\ \A u \in EpochUids : u > 2 => ~Active[0][u]
    /\ S[0][0] = 5 /\ S[0][1] = 3 /\ S[0][2] = 2
    /\ Weights[0][0] = << <<1, 1>> >>
    /\ Weights[0][1] = << <<2, 1>> >>
    /\ Weights[0][2] = << <<0, 1>> >>
    /\ MinAllowedWeights[0] <= 1
    /\ DOMAIN Rank[0] = EpochUids

\* C18: an epoch run stores rank[j] = sum over i of S[i] * weight[i][j]; in the cyclic
\* three-uid scenario the stored rank is [0.2, 0.5, 0.3] (in u16 fixed point)
C18_CyclicRank ==
    CyclicScenario =>
        /\ Rank[0][0] = (2 * U16Max) \div 10
        /\ Rank[0][1] = (5 * U16Max) \div 10
        /\ Rank[0][2] = (3 * U16Max) \div 10
        /\ \A u \in EpochUids : u > 2 => Rank[0][u] = 0

\* C18 witness: the epoch has run on the scenario
C18_Witness == CyclicScenario /\ Rank[0][1] > Rank[0][2] /\ Rank[0][2] > Rank[0][0]

\* C19: calculate_emission_ratio_sum returns the sum of the EmissionRatio entries
C19_SumIsSum == calculate_emission_ratio_sum = EmissionRatioSum(EmissionRatio)

\* C20: every stored EmissionRatio entry is at most 1: sudo_set_emission_ratio stores the
\* new ratio when it is at most 1 and stores nothing otherwise
C20_EntriesAtMostOne ==
    /\ [](\A n \in Netuids : EmissionRatio[n] <= 1)
    /\ [][lastCall'.op = "sudo_set_emission_ratio"
            => EmissionRatio' = IF lastCall'.amount <= 1
                                THEN [EmissionRatio EXCEPT ![lastCall'.netuid] = lastCall'.amount]
                                ELSE EmissionRatio]_vars

\* C20 witness: a ratio above 1 was offered after a ratio of 1 had been stored
C20_Witness ==
    /\ lastCall.op = "sudo_set_emission_ratio"
    /\ lastCall.amount > 1
    /\ \E n \in Netuids : EmissionRatio[n] = 1
    /\ \A n \in Netuids : EmissionRatio[n] <= 1

\* C21: sudo_set_emission_ratio(netuid, ratio) changes at most EmissionRatio[netuid]: the
\* entries of every other netuid and all other storage items are unchanged
C21_EmissionRatioFrame ==
    [][lastCall'.op = "sudo_set_emission_ratio"
          => /\ \A n \in Netuids : n # lastCall'.netuid => EmissionRatio'[n] = EmissionRatio[n]
             /\ UNCHANGED <<TotalStake, Stake, Coldkeys, Hotkeys, BlocksPerStep,
                            MinAllowedWeights, Tempo, Active, S, Rank, SubnetworkN, Keys,
                            Uids, Weights, Bonds>>]_vars

\* C21 witness: a ratio was stored for one netuid while another netuid holds a different one
C21_Witness ==
    /\ lastCall.op = "sudo_set_emission_ratio"
    /\ lastCall.amount <= 1
    /\ EmissionRatio[lastCall.netuid] = lastCall.amount
    /\ \E n \in Netuids : n # lastCall.netuid /\ EmissionRatio[n] # lastCall.amount

\* the dispatchables whose body is only Ok(())
StubCalls == {"set_weights", "add_stake", "remove_stake", "serve_axon", "register",
              "sudo_set_blocks_per_step"}

====
